---- MODULE Spec2Model ----
(***************************************************************************)
(* Model of github_full_mcp_server.py: twenty tool handlers that translate *)
(* a tool call into calls on the PyGithub client `g` and shape the answer, *)
(* or turn a caught exception into {"error": <message>}.                   *)
(*                                                                         *)
(* A handler is one atomic action.  What the remote platform answers is    *)
(* read from the variable `remote`; the sequence of remote operations a    *)
(* handler attempts is recorded in `calls`.  Python exceptions are         *)
(* modelled by a computation record whose `exc` field, once set, makes     *)
(* every later statement of the try block a no-op.                         *)
(***************************************************************************)
EXTENDS Integers, Sequences, FiniteSets

\* ------------------------------------------------------------------ bounds
MaxItems == 2    \* longest enumeration the remote returns
MaxLimit == 2    \* largest `limit` argument tried (the smallest is -1)

\* ---------------------------------------------------------- Python values
NoneVal == "<None>"                 \* Python's None (never a legal string here)
TruthyStr(s) == s # NoneVal /\ s # ""      \* `if s:` for an Optional[str]
PyBool(j) == j = "true"             \* truthiness of a JSON true/false/null

Digits == <<"0", "1", "2", "3", "4", "5", "6", "7", "8", "9">>
RECURSIVE IntStr(_)
IntStr(n) == IF n < 10 THEN <<Digits[n + 1]>>
             ELSE IntStr(n \div 10) \o <<Digits[(n % 10) + 1]>>

Min(a, b) == IF a <= b THEN a ELSE b
Max(a, b) == IF a >= b THEN a ELSE b

\* ------------------------------------------------------- remote operations
LookupOps == {"get_repo", "get_user", "get_pull", "get_commit", "get_workflow",
              "get_organization", "get_gist", "get_contents"}
EnumOps == {"get_issues", "get_branches", "get_releases", "get_workflows",
            "get_labels", "get_members"}
MutationOps == {"create_issue", "update_file", "create_file", "create_pull",
                "merge", "create_review_comment", "create_review_request",
                "delete_file", "create_git_release", "create_dispatch",
                "create_label", "create_gist"}
Ops == LookupOps \cup EnumOps \cup MutationOps

\* The resource kind an operation needs; the platform raises GithubException
\* for an operation whose kind it currently refuses (not found, forbidden).
KindOf(op) ==
  CASE op = "get_repo" -> "repo"
    [] op = "get_user" -> "user"
    [] op = "get_pull" -> "pull"
    [] op = "get_commit" -> "commit"
    [] op = "get_workflow" -> "workflow"
    [] op = "get_organization" -> "org"
    [] op = "get_gist" -> "gist"
    [] op = "get_contents" -> "contents"
    [] op \in EnumOps -> "listing"
    [] OTHER -> "write"
Kinds == {KindOf(op) : op \in Ops}

ReadTools == {"list_issues", "get_pull_request_summary", "list_branches",
              "get_file_content_from_repo", "list_repository_contents",
              "list_releases", "list_workflows", "list_labels",
              "get_user_profile", "list_org_members", "get_gist_content"}
MutatingTools == {"create_github_issue", "create_or_update_file",
                  "create_pull_request", "merge_pull_request",
                  "add_pull_request_review_comment",
                  "request_pull_request_review", "delete_file",
                  "create_release", "trigger_workflow", "create_label",
                  "create_gist"}
Tools == ReadTools \cup MutatingTools
\* the list tools that declare a `limit` parameter
LimitTools == {"list_issues", "list_branches", "list_releases",
               "list_workflows", "list_labels", "list_org_members"}
ListTools == LimitTools \cup {"list_repository_contents"}
\* the tools that never call _get_repo_safe
NoRepoTools == {"get_user_profile", "list_org_members", "create_gist",
                "get_gist_content"}

VARIABLES
  g,             \* the module-level client handle, or NoneVal
  remote,        \* the hosting platform's state
  pc,            \* "idle" | "done" | "repeated"
  tool,          \* the tool of the current invocation
  args,          \* its arguments
  calls,         \* remote operations attempted by the invocation, in order
  filters,       \* keyword arguments the invocation passed to repo.get_issues
  result,        \* how the invocation ended
  again          \* how the same call ended when issued a second time

vars == <<g, remote, pc, tool, args, calls, filters, result, again>>

\* --------------------------------------------------------------- bootstrap
Tokens == {NoneVal, "", "bad-token", "good-token"}
ValidTokens == {"good-token"}       \* the tokens the platform accepts

\* Lines 11-24: g is the client only for a set token that passes the probe
\* g.get_user().login; every other case leaves g = None and the process runs.
Bootstrap(token) ==
  IF ~TruthyStr(token) THEN NoneVal
  ELSE IF token \in ValidTokens THEN "Github" ELSE NoneVal

\* ------------------------------------------------------------ remote state
RECURSIVE BoolSeqs(_)
BoolSeqs(n) == IF n = 0 THEN {<<>>}
               ELSE BoolSeqs(n - 1) \cup
                    {Append(s, b) : s \in {t \in BoolSeqs(n - 1) : Len(t) = n - 1},
                                    b \in BOOLEAN}

\* unavailable: the resource kind the platform refuses, if any
\* listing:     what an enumeration yields, in platform order; the flag is
\*              branch.protected when the items are branches
\* mergeable:   pr.mergeable as the platform reports it (true/false/null)
\* is_dir:      whether get_contents(path) answers with a directory listing
\* modified:    whether a mutation of this process has been applied
RemoteStates ==
  [unavailable : Kinds \cup {"nothing"},
   listing : BoolSeqs(MaxItems),
   mergeable : {"true", "false", "null"},
   is_dir : BOOLEAN,
   modified : BOOLEAN]

Raises(op) == remote.unavailable = KindOf(op)

\* ------------------------------------------------------------- exceptions
NoExc == [type |-> "", msg |-> <<>>, data |-> <<>>]
GithubException(op) ==
  [type |-> "GithubException", msg |-> <<"GithubException from ", op>>,
   data |-> <<"data of ", op>>]
ValueError(msg) == [type |-> "ValueError", msg |-> msg, data |-> <<>>]
AttributeError(attr) ==
  [type |-> "AttributeError",
   msg |-> <<"'NoneType' object has no attribute '", attr, "'">>,
   data |-> <<>>]
Str(e) == e.msg

\* A computation inside a try block: the remote operations attempted so far,
\* the exception in flight (NoExc if none), whether a mutation was applied,
\* the keyword arguments given to repo.get_issues (if it was called) and the
\* module-level g as the handler sees and leaves it.
Start == [calls |-> <<>>, exc |-> NoExc, wrote |-> FALSE, filters |-> <<>>,
          g |-> g]
Failed(s) == s.exc # NoExc

\* Mutant of RemoteCall: a failed operation is attempted a second time
\* before the exception is let through.
RemoteCall_retrying(s, op) ==
  IF Failed(s) THEN s
  ELSE IF Raises(op)
       THEN [s EXCEPT !.calls = @ \o <<op, op>>, !.exc = GithubException(op)]
       ELSE [s EXCEPT !.calls = Append(@, op),
                      !.wrote = @ \/ op \in MutationOps]

\* One remote operation through a handle already obtained.  Skipped when an
\* exception is in flight; otherwise attempted once, and it either raises the
\* platform's exception or succeeds (applying its mutation, if it is one).
RemoteCall(s, op) ==
  IF Failed(s) THEN s
  ELSE IF Raises(op)
       THEN [s EXCEPT !.calls = Append(@, op), !.exc = GithubException(op)]
       ELSE [s EXCEPT !.calls = Append(@, op),
                      !.wrote = @ \/ op \in MutationOps]

\* A method of the module-level g (g.get_user, g.get_organization, ...):
\* attribute access on None raises AttributeError before any remote call.
GCall(s, op) ==
  IF Failed(s) THEN s
  ELSE IF s.g = NoneVal THEN [s EXCEPT !.exc = AttributeError(op)]
  ELSE RemoteCall(s, op)

Raise(s, e) == IF Failed(s) THEN s ELSE [s EXCEPT !.exc = e]

\* repo.get_issues(**kwargs): the remote call, with the filters it was given.
GetIssues(s, kwargs) ==
  IF Failed(s) THEN s
  ELSE [RemoteCall(s, "get_issues") EXCEPT !.filters = kwargs]

TokenMessage ==
  <<"GitHub token is not configured or invalid. Please set GITHUB_TOKEN environment variable correctly.">>

\* Mutant of _get_repo_safe: the `if not g` guard is missing, so the lookup
\* is made on whatever g is.
_get_repo_safe_unguarded(s, repo_full_name) ==
  LET r == GCall(s, "get_repo")
  IN IF r.exc.type = "GithubException"
     THEN [r EXCEPT !.exc = ValueError(
             <<"Could not find repository '", repo_full_name,
               "'. Error: ">> \o r.exc.data)]
     ELSE r

\* Mutant of _get_repo_safe: a failed lookup also drops the client
\* (`global g; g = None` in the except clause).
_get_repo_safe_dropping_client(s, repo_full_name) ==
  IF Failed(s) THEN s
  ELSE IF s.g = NoneVal THEN Raise(s, ValueError(TokenMessage))
  ELSE LET r == RemoteCall(s, "get_repo")
       IN IF r.exc.type = "GithubException"
          THEN [r EXCEPT !.g = NoneVal,
                         !.exc = ValueError(
                           <<"Could not find repository '", repo_full_name,
                             "'. Error: ">> \o r.exc.data)]
          ELSE r

\* Lines 28-36.
_get_repo_safe(s, repo_full_name) ==
  IF Failed(s) THEN s
  ELSE IF s.g = NoneVal THEN Raise(s, ValueError(TokenMessage))
  ELSE LET r == RemoteCall(s, "get_repo")
       IN IF r.exc.type = "GithubException"
          THEN [r EXCEPT !.exc = ValueError(
                  <<"Could not find repository '", repo_full_name,
                    "'. Error: ">> \o r.exc.data)]
          ELSE r

\* ---------------------------------------------------------------- outcomes
Both == {"ValueError", "GithubException"}      \* except (ValueError, GithubException)
OnlyGithub == {"GithubException"}              \* except GithubException

Outcome(s, kind, error, value) ==
  [calls |-> s.calls, wrote |-> s.wrote, filters |-> s.filters, g |-> s.g,
   kind |-> kind, error |-> error,
   value |-> value, exc |-> IF kind = "raised" THEN s.exc.type ELSE ""]

\* return <value> at the end of the try block, or the except clause's
\* {"error": prefix + str(e) + suffix} for a caught exception; an exception
\* the clause does not name leaves the handler.
Finish(s, caught, prefix, suffix, value) ==
  IF ~Failed(s) THEN Outcome(s, "ok", <<>>, value)
  ELSE IF s.exc.type \in caught
       THEN Outcome(s, "error", prefix \o Str(s.exc) \o suffix, <<>>)
       ELSE Outcome(s, "raised", <<>>, <<>>)

\* return {"error": msg} from inside the try block
ReturnError(s, msg) == Outcome(s, "error", msg, <<>>)

\* Mutant of Visit: the loop breaks on i > limit.
RECURSIVE Visit_off_by_one(_, _, _)
Visit_off_by_one(n, i, limit) ==
  IF i >= n \/ i > limit THEN <<>>
  ELSE <<i + 1>> \o Visit_off_by_one(n, i + 1, limit)

\* for i, x in enumerate(xs): if i >= limit: break; ...   The positions
\* (1-based) of the items the loop body runs on.
RECURSIVE Visit(_, _, _)
Visit(n, i, limit) ==
  IF i >= n \/ i >= limit THEN <<>>
  ELSE <<i + 1>> \o Visit(n, i + 1, limit)

\* ----------------------------------------------------------- the handlers
\* Each handler maps its arguments to an Outcome.  String-valued fields of a
\* success payload that are copied from a platform object are named by the
\* attribute they are copied from.

\* Mutant of list_issues: the username string is passed as the assignee
\* filter and the user is never looked up.
list_issues_raw_assignee(a) ==
  LET s1 == _get_repo_safe(Start, a.repo_full_name)
      kwargs == <<<<"state", "str", a.state>>>> \o
                (IF TruthyStr(a.assignee_username)
                 THEN <<<<"assignee", "str", a.assignee_username>>>>
                 ELSE <<>>)
      s3 == GetIssues(s1, kwargs)
      seen == Visit(Len(remote.listing), 0, a.limit)
  IN Finish(s3, Both, <<>>, <<>>,
            [k \in 1..Len(seen) |-> [number |-> seen[k]]])

\* Lines 53-75: filters = {'state': state}, plus 'assignee' (the user object
\* g.get_user returned) when assignee_username is truthy.  The platform
\* applies the filters; the handler shapes the first `limit` issues it yields.
list_issues(a) ==
  LET s1 == _get_repo_safe(Start, a.repo_full_name)
      s2 == IF TruthyStr(a.assignee_username) THEN GCall(s1, "get_user") ELSE s1
      kwargs == <<<<"state", "str", a.state>>>> \o
                (IF TruthyStr(a.assignee_username)
                 THEN <<<<"assignee", "NamedUser", a.assignee_username>>>>
                 ELSE <<>>)
      s3 == GetIssues(s2, kwargs)
      seen == Visit(Len(remote.listing), 0, a.limit)
  IN Finish(s3, Both, <<>>, <<>>,
            [k \in 1..Len(seen) |-> [number |-> seen[k]]])

\* Mutant of create_github_issue: the issue is created first and the
\* assignee is resolved afterwards.
create_github_issue_assign_after(a) ==
  LET s1 == _get_repo_safe(Start, a.repo_full_name)
      s2 == RemoteCall(s1, "create_issue")
      s3 == IF TruthyStr(a.assignee_username) THEN GCall(s2, "get_user") ELSE s2
  IN Finish(s3, Both, <<>>, <<>>,
            [message |-> "Issue created successfully!", title |-> "issue.title",
             number |-> "issue.number", url |-> "issue.html_url"])

\* Lines 91-97.
create_github_issue(a) ==
  LET s1 == _get_repo_safe(Start, a.repo_full_name)
      s2 == IF TruthyStr(a.assignee_username) THEN GCall(s1, "get_user") ELSE s1
      s3 == RemoteCall(s2, "create_issue")
  IN Finish(s3, Both, <<>>, <<>>,
            [message |-> "Issue created successfully!", title |-> "issue.title",
             number |-> "issue.number", url |-> "issue.html_url"])

\* Lines 110-130.
get_pull_request_summary(a) ==
  LET s1 == _get_repo_safe(Start, a.repo_full_name)
      s2 == RemoteCall(s1, "get_pull")
  IN Finish(s2, Both,
            <<"Could not retrieve PR summary. Check repo name or PR number. Error: ">>,
            <<>>,
            [number |-> a.pr_number, mergeable |-> remote.mergeable,
             title |-> "pr.title", state |-> "pr.state"])

\* Lines 144-157: the limit is tested against the enumeration index, so the
\* filter is applied to the first `limit` branches only.
list_branches(a) ==
  LET s1 == _get_repo_safe(Start, a.repo_full_name)
      s2 == RemoteCall(s1, "get_branches")
      seen == Visit(Len(remote.listing), 0, a.limit)
      kept == SelectSeq(seen, LAMBDA i : ~a.protected_only \/ remote.listing[i])
  IN Finish(s2, Both, <<>>, <<>>,
            [k \in 1..Len(kept) |->
               [name |-> kept[k], protected |-> remote.listing[kept[k]]]])

\* Mutant of get_file_content_from_repo: the isinstance(contents, list) test
\* is missing.
get_file_content_from_repo_unchecked(a) ==
  LET s1 == _get_repo_safe(Start, a.repo_full_name)
      s2 == RemoteCall(s1, "get_contents")
  IN Finish(s2, Both,
            <<"Could not retrieve file content. Check repo, path, or ref. Error: ">>,
            <<>>,
            [content |-> "contents.decoded_content",
             encoding |-> "contents.encoding", sha |-> "contents.sha"])

\* Lines 171-183.
get_file_content_from_repo(a) ==
  LET s1 == _get_repo_safe(Start, a.repo_full_name)
      s2 == RemoteCall(s1, "get_contents")
  IN IF ~Failed(s2) /\ remote.is_dir
     THEN ReturnError(s2, <<"Path '", a.path, "' is a directory, not a file.">>)
     ELSE Finish(s2, Both,
                 <<"Could not retrieve file content. Check repo, path, or ref. Error: ">>,
                 <<>>,
                 [content |-> "contents.decoded_content",
                  encoding |-> "contents.encoding", sha |-> "contents.sha"])

\* Mutant of create_or_update_file: the branch tests `sha is not None`.
create_or_update_file_sha_not_none(a) ==
  LET s1 == _get_repo_safe(Start, a.repo_full_name)
      s2 == IF a.sha # NoneVal THEN RemoteCall(s1, "update_file")
            ELSE RemoteCall(s1, "create_file")
  IN Finish(s2, Both,
            <<"Could not create/update file. Check permissions, path, or SHA. Error: ">>,
            <<>>,
            [message |-> "File operation successful!",
             commit_sha |-> "response.commit.sha", file_path |-> "response.content.path",
             file_url |-> "response.content.html_url"])

\* Lines 201-215: `if sha:` is the truthiness of the argument.
create_or_update_file(a) ==
  LET s1 == _get_repo_safe(Start, a.repo_full_name)
      s2 == IF TruthyStr(a.sha) THEN RemoteCall(s1, "update_file")
            ELSE RemoteCall(s1, "create_file")
  IN Finish(s2, Both,
            <<"Could not create/update file. Check permissions, path, or SHA. Error: ">>,
            <<>>,
            [message |-> "File operation successful!",
             commit_sha |-> "response.commit.sha", file_path |-> "response.content.path",
             file_url |-> "response.content.html_url"])

\* Lines 232-243.
create_pull_request(a) ==
  LET s1 == _get_repo_safe(Start, a.repo_full_name)
      s2 == RemoteCall(s1, "create_pull")
  IN Finish(s2, Both, <<>>, <<>>,
            [message |-> "Pull request created successfully!", title |-> "pull.title",
             number |-> "pull.number", url |-> "pull.html_url", state |-> "pull.state"])

\* Mutant of merge_pull_request: the test is `pr.mergeable is False`, so a
\* flag the platform has not computed yet goes on to the merge.
merge_pull_request_is_false(a) ==
  LET s1 == _get_repo_safe(Start, a.repo_full_name)
      s2 == RemoteCall(s1, "get_pull")
  IN IF ~Failed(s2) /\ remote.mergeable = "false"
     THEN ReturnError(s2, <<"Pull request #">> \o IntStr(a.pr_number)
                            \o <<" is not mergeable.">>)
     ELSE Finish(RemoteCall(s2, "merge"), Both, <<>>, <<>>,
                 [message |-> "merge_result.message", merged |-> "merge_result.merged",
                  sha |-> "merge_result.sha", url |-> "pr.html_url"])

\* Mutant of merge_pull_request: the mergeable test is missing.
merge_pull_request_unchecked(a) ==
  LET s1 == _get_repo_safe(Start, a.repo_full_name)
      s2 == RemoteCall(s1, "get_pull")
  IN Finish(RemoteCall(s2, "merge"), Both, <<>>, <<>>,
            [message |-> "merge_result.message", merged |-> "merge_result.merged",
             sha |-> "merge_result.sha", url |-> "pr.html_url"])

\* Lines 259-273.
merge_pull_request(a) ==
  LET s1 == _get_repo_safe(Start, a.repo_full_name)
      s2 == RemoteCall(s1, "get_pull")
  IN IF ~Failed(s2) /\ ~PyBool(remote.mergeable)
     THEN ReturnError(s2, <<"Pull request #">> \o IntStr(a.pr_number)
                            \o <<" is not mergeable.">>)
     ELSE Finish(RemoteCall(s2, "merge"), Both, <<>>, <<>>,
                 [message |-> "merge_result.message", merged |-> "merge_result.merged",
                  sha |-> "merge_result.sha", url |-> "pr.html_url"])

\* Lines 290-301.
add_pull_request_review_comment(a) ==
  LET s1 == _get_repo_safe(Start, a.repo_full_name)
      s2 == RemoteCall(s1, "get_pull")
      s3 == RemoteCall(s2, "get_commit")
      s4 == RemoteCall(s3, "create_review_comment")
  IN Finish(s4, Both, <<>>, <<>>,
            [message |-> "Review comment added successfully!", id |-> "comment.id",
             url |-> "comment.html_url"])

\* Lines 316-322.
request_pull_request_review(a) ==
  LET s1 == _get_repo_safe(Start, a.repo_full_name)
      s2 == RemoteCall(s1, "get_pull")
      s3 == RemoteCall(s2, "create_review_request")
  IN Finish(s3, Both, <<>>, <<>>, [message |-> "Review request sent successfully!"])

\* Mutant of list_repository_contents: the else branch for a single file is
\* missing, so a file path yields the empty list.
list_repository_contents_dir_only(a) ==
  LET s1 == _get_repo_safe(Start, a.repo_full_name)
      s2 == RemoteCall(s1, "get_contents")
  IN Finish(s2, Both,
            <<"Could not list repository contents. Check repo, path, or ref. Error: ">>,
            <<>>,
            IF remote.is_dir
            THEN [k \in 1..Len(remote.listing) |-> [name |-> k, type |-> "entry"]]
            ELSE <<>>)

\* Lines 336-357: a directory listing is shaped entry by entry, a single file
\* into a one-element list.  There is no limit parameter.
list_repository_contents(a) ==
  LET s1 == _get_repo_safe(Start, a.repo_full_name)
      s2 == RemoteCall(s1, "get_contents")
  IN Finish(s2, Both,
            <<"Could not list repository contents. Check repo, path, or ref. Error: ">>,
            <<>>,
            IF remote.is_dir
            THEN [k \in 1..Len(remote.listing) |-> [name |-> k, type |-> "entry"]]
            ELSE <<[name |-> 0, type |-> "file"]>>)

\* Lines 374-383.
delete_file(a) ==
  LET s1 == _get_repo_safe(Start, a.repo_full_name)
      s2 == RemoteCall(s1, "delete_file")
  IN Finish(s2, Both,
            <<"Could not delete file. Check permissions, path, or SHA. Error: ">>, <<>>,
            [message |-> "File deleted successfully!",
             commit_sha |-> "response.commit.sha", file_path |-> a.path])

\* Lines 396-413.
list_releases(a) ==
  LET s1 == _get_repo_safe(Start, a.repo_full_name)
      s2 == RemoteCall(s1, "get_releases")
      seen == Visit(Len(remote.listing), 0, a.limit)
  IN Finish(s2, Both, <<>>, <<>>, [k \in 1..Len(seen) |-> [tag_name |-> seen[k]]])

\* Lines 431-448.
create_release(a) ==
  LET s1 == _get_repo_safe(Start, a.repo_full_name)
      s2 == RemoteCall(s1, "create_git_release")
  IN Finish(s2, Both, <<>>, <<>>,
            [message |-> "Release created successfully!", tag_name |-> "release.tag_name",
             name |-> "release.title", url |-> "release.html_url"])

\* Lines 461-476.
list_workflows(a) ==
  LET s1 == _get_repo_safe(Start, a.repo_full_name)
      s2 == RemoteCall(s1, "get_workflows")
      seen == Visit(Len(remote.listing), 0, a.limit)
  IN Finish(s2, Both, <<>>, <<>>, [k \in 1..Len(seen) |-> [id |-> seen[k]]])

\* Lines 492-502: both isinstance branches make the same lookup.
trigger_workflow(a) ==
  LET s1 == _get_repo_safe(Start, a.repo_full_name)
      s2 == RemoteCall(s1, "get_workflow")
      s3 == RemoteCall(s2, "create_dispatch")
  IN Finish(s3, Both,
            <<"An unexpected error occurred while triggering workflow: ">>,
            <<". Ensure workflow_id_or_name is correct and PAT has 'workflow' scope.">>,
            [message |-> "Workflow dispatched successfully"])

\* Mutant of list_labels: a repository without labels is given one.
list_labels_creating(a) ==
  LET s1 == _get_repo_safe(Start, a.repo_full_name)
      s2 == RemoteCall(s1, "get_labels")
      s3 == IF remote.listing = <<>> THEN RemoteCall(s2, "create_label") ELSE s2
      seen == Visit(Len(remote.listing), 0, a.limit)
  IN Finish(s3, Both, <<>>, <<>>, [k \in 1..Len(seen) |-> [name |-> seen[k]]])

\* Lines 515-528.
list_labels(a) ==
  LET s1 == _get_repo_safe(Start, a.repo_full_name)
      s2 == RemoteCall(s1, "get_labels")
      seen == Visit(Len(remote.listing), 0, a.limit)
  IN Finish(s2, Both, <<>>, <<>>, [k \in 1..Len(seen) |-> [name |-> seen[k]]])

\* Lines 543-554.
create_label(a) ==
  LET s1 == _get_repo_safe(Start, a.repo_full_name)
      s2 == RemoteCall(s1, "create_label")
  IN Finish(s2, Both, <<>>, <<>>,
            [message |-> "Label created successfully!", name |-> "label.name",
             color |-> "label.color", url |-> "label.url"])

\* Lines 566-583: g is used directly and only GithubException is caught.
get_user_profile(a) ==
  LET s1 == GCall(Start, "get_user")
  IN Finish(s1, OnlyGithub,
            <<"Could not retrieve user profile for '", a.username, "'. Error: ">>, <<>>,
            [login |-> "user.login", id |-> "user.id", url |-> "user.html_url"])

\* Lines 596-609.
list_org_members(a) ==
  LET s1 == GCall(Start, "get_organization")
      s2 == RemoteCall(s1, "get_members")
      seen == Visit(Len(remote.listing), 0, a.limit)
  IN Finish(s2, OnlyGithub,
            <<"Could not list organization members for '", a.org_name, "'. Error: ">>,
            <<>>,
            [k \in 1..Len(seen) |-> [id |-> seen[k]]])

\* Lines 624-636.
create_gist(a) ==
  LET s1 == GCall(Start, "create_gist")
  IN Finish(s1, OnlyGithub,
            <<"An unexpected error occurred while creating gist: ">>, <<>>,
            [message |-> "Gist created successfully!", id |-> "gist.id",
             url |-> "gist.html_url"])

\* Lines 648-660.
get_gist_content(a) ==
  LET s1 == GCall(Start, "get_gist")
  IN Finish(s1, OnlyGithub,
            <<"Could not retrieve gist content for ID '", a.gist_id, "'. Error: ">>,
            <<>>,
            [id |-> "gist.id", description |-> "gist.description",
             files |-> "gist.files"])

\* ------------------------------------------------------------ the machine
Limits == -1..MaxLimit
PrNumbers == {7, 12}
OptionalStrings(v) == {NoneVal, "", v}     \* omitted, empty, or a value
IssueStates == {"open", "closed", "all"}

DefaultArgs ==
  [repo_full_name |-> "acme/widgets", limit |-> 0, protected_only |-> FALSE,
   assignee_username |-> NoneVal, state |-> "open", sha |-> NoneVal,
   pr_number |-> 7,
   path |-> "README.md", username |-> "octocat", org_name |-> "acme",
   gist_id |-> "abc123"]
WithLimit == {[DefaultArgs EXCEPT !.limit = l] : l \in Limits}
WithPr == {[DefaultArgs EXCEPT !.pr_number = n] : n \in PrNumbers}

NoResult == [kind |-> "none", error |-> <<>>, value |-> <<>>, exc |-> ""]
ResultOf(out) ==
  [kind |-> out.kind, error |-> out.error, value |-> out.value, exc |-> out.exc]

\* The registry built by the @mcp.tool() decorators: tool name -> handler.
Dispatch(t, a) ==
  CASE t = "list_issues" -> list_issues(a)
    [] t = "create_github_issue" -> create_github_issue(a)
    [] t = "get_pull_request_summary" -> get_pull_request_summary(a)
    [] t = "list_branches" -> list_branches(a)
    [] t = "get_file_content_from_repo" -> get_file_content_from_repo(a)
    [] t = "create_or_update_file" -> create_or_update_file(a)
    [] t = "create_pull_request" -> create_pull_request(a)
    [] t = "merge_pull_request" -> merge_pull_request(a)
    [] t = "add_pull_request_review_comment" -> add_pull_request_review_comment(a)
    [] t = "request_pull_request_review" -> request_pull_request_review(a)
    [] t = "list_repository_contents" -> list_repository_contents(a)
    [] t = "delete_file" -> delete_file(a)
    [] t = "list_releases" -> list_releases(a)
    [] t = "create_release" -> create_release(a)
    [] t = "list_workflows" -> list_workflows(a)
    [] t = "trigger_workflow" -> trigger_workflow(a)
    [] t = "list_labels" -> list_labels(a)
    [] t = "create_label" -> create_label(a)
    [] t = "get_user_profile" -> get_user_profile(a)
    [] t = "list_org_members" -> list_org_members(a)
    [] t = "create_gist" -> create_gist(a)
    [] t = "get_gist_content" -> get_gist_content(a)

\* The platform after an invocation: changed only by a mutation that succeeded.
Applied(out) == [remote EXCEPT !.modified = @ \/ out.wrote]

\* One invocation of tool t with arguments a, run to its end.
Invoke(t, a) ==
  LET out == Dispatch(t, a)
  IN /\ pc = "idle"
     /\ pc' = "done"
     /\ tool' = t
     /\ args' = a
     /\ calls' = out.calls
     /\ filters' = out.filters
     /\ result' = ResultOf(out)
     /\ remote' = Applied(out)
     /\ g' = out.g
     /\ UNCHANGED again

\* The caller issues the same read-only call a second time.
Repeat ==
  LET out == Dispatch(tool, args)
  IN /\ pc = "done"
     /\ tool \in ReadTools
     /\ pc' = "repeated"
     /\ again' = ResultOf(out)
     /\ remote' = Applied(out)
     /\ g' = out.g
     /\ UNCHANGED <<tool, args, calls, filters, result>>

\* The value has been handed to the caller; nothing of the call is retained.
Return ==
  /\ pc \in {"done", "repeated"}
  /\ pc' = "idle"
  /\ tool' = ""
  /\ args' = DefaultArgs
  /\ calls' = <<>>
  /\ filters' = <<>>
  /\ result' = NoResult
  /\ again' = NoResult
  /\ UNCHANGED <<g, remote>>

Init ==
  /\ g \in {Bootstrap(t) : t \in Tokens}
  /\ remote \in {r \in RemoteStates : ~r.modified}
  /\ pc = "idle"
  /\ tool = ""
  /\ args = DefaultArgs
  /\ calls = <<>>
  /\ filters = <<>>
  /\ result = NoResult
  /\ again = NoResult

Next ==
  \/ \E l \in Limits, u \in OptionalStrings("alice"), st \in IssueStates :
       Invoke("list_issues", [DefaultArgs EXCEPT !.limit = l, !.state = st,
                                                 !.assignee_username = u])
  \/ \E u \in OptionalStrings("alice") :
       Invoke("create_github_issue", [DefaultArgs EXCEPT !.assignee_username = u])
  \/ \E a \in WithPr : Invoke("get_pull_request_summary", a)
  \/ \E l \in Limits, p \in BOOLEAN :
       Invoke("list_branches", [DefaultArgs EXCEPT !.limit = l, !.protected_only = p])
  \/ Invoke("get_file_content_from_repo", DefaultArgs)
  \/ \E h \in OptionalStrings("3f2a") :
       Invoke("create_or_update_file", [DefaultArgs EXCEPT !.sha = h])
  \/ Invoke("create_pull_request", DefaultArgs)
  \/ \E a \in WithPr : Invoke("merge_pull_request", a)
  \/ Invoke("add_pull_request_review_comment", DefaultArgs)
  \/ Invoke("request_pull_request_review", DefaultArgs)
  \/ Invoke("list_repository_contents", DefaultArgs)
  \/ Invoke("delete_file", [DefaultArgs EXCEPT !.sha = "3f2a"])
  \/ \E a \in WithLimit : Invoke("list_releases", a)
  \/ Invoke("create_release", DefaultArgs)
  \/ \E a \in WithLimit : Invoke("list_workflows", a)
  \/ Invoke("trigger_workflow", DefaultArgs)
  \/ \E a \in WithLimit : Invoke("list_labels", a)
  \/ Invoke("create_label", DefaultArgs)
  \/ Invoke("get_user_profile", DefaultArgs)
  \/ \E a \in WithLimit : Invoke("list_org_members", a)
  \/ Invoke("create_gist", DefaultArgs)
  \/ Invoke("get_gist_content", DefaultArgs)
  \/ Repeat
  \/ Return

Spec == Init /\ [][Next]_vars

\* ------------------------------------------------------------- properties
Ended == pc \in {"done", "repeated"}
Contains(seq, sub) ==
  \E i \in 0..(Len(seq) - Len(sub)) : SubSeq(seq, i + 1, i + Len(sub)) = sub
Positions(ops) == {i \in 1..Len(calls) : calls[i] \in ops}
\* the repository handle was obtained in this invocation
RepoResolved == g # NoneVal /\ ~Raises("get_repo")

\* C1: every invocation of every tool, whatever the credential state and
\* whatever the remote calls answer, ends with its success payload or with
\* {"error": <string>}; no exception leaves the handler.
C1_NeverRaises == Ended => result.kind \in {"ok", "error"}

\* C2: with the client handle absent (g is None) every one of the twenty
\* tools returns an {"error": ...} payload that reports the credential as
\* not configured or invalid.
C2_AbsentCredentialIsErrorPayload ==
  (Ended /\ g = NoneVal) =>
    (result.kind = "error" /\ Contains(result.error, TokenMessage))

ListOk == Ended /\ result.kind = "ok"
\* the positions of the enumeration that match the tool's optional filter
Matching ==
  SelectSeq([i \in 1..Len(remote.listing) |-> i],
            LAMBDA i : tool = "list_branches" /\ args.protected_only
                         => remote.listing[i])

\* C3 (as stated): a successful call of a list tool returns a list whose
\* length never exceeds the supplied limit, for every integer limit.
C3_LengthWithinLimit ==
  (ListOk /\ tool \in LimitTools) => Len(result.value) <= args.limit

\* C3 (amended): a successful call of a list tool that takes a limit returns
\* a list no longer than max(limit, 0); a negative limit yields the empty
\* list.  list_repository_contents takes no limit: for a directory it
\* returns one record per entry, however many there are.
C3_LengthWithinCappedLimit ==
  /\ (ListOk /\ tool \in LimitTools) =>
       Len(result.value) <= Max(args.limit, 0)
  /\ (ListOk /\ tool = "list_repository_contents" /\ remote.is_dir) =>
       Len(result.value) = Len(remote.listing)

\* C3 witness: the limit cuts a longer enumeration short.
C3_Witness ==
  /\ ListOk /\ tool = "list_releases"
  /\ args.limit = 1 /\ Len(remote.listing) = 2 /\ Len(result.value) = 1

\* C4: a successful call of a list tool with a (non-negative) limit returns
\* exactly min(limit, M) records, M being the number of remote resources
\* that match the tool's filter; list_branches with protected_only returns
\* the first `limit` protected branches in enumeration order.
C4_ExactlyMinLimitMatching ==
  (ListOk /\ tool \in LimitTools /\ args.limit >= 0) =>
    /\ Len(result.value) = Min(args.limit, Len(Matching))
    /\ (tool = "list_branches" /\ args.protected_only) =>
         \A k \in 1..Len(result.value) : result.value[k].name = Matching[k]

\* C5: merge_pull_request on a pull request whose mergeable flag is false
\* never invokes the merge mutation, and once the pull request has been
\* fetched it returns the error "Pull request #<n> is not mergeable." with
\* n the pr_number argument.
C5_UnmergeableNeverMerged ==
  (Ended /\ tool = "merge_pull_request" /\ remote.mergeable = "false") =>
    /\ Positions({"merge"}) = {}
    /\ (RepoResolved /\ ~Raises("get_pull")) =>
         /\ calls = <<"get_repo", "get_pull">>
         /\ result.kind = "error"
         /\ result.error = <<"Pull request #">> \o IntStr(args.pr_number)
                             \o <<" is not mergeable.">>

\* C5 witness: pull request 12 fetched, flag false, the fixed message returned.
C5_Witness ==
  /\ Ended /\ tool = "merge_pull_request" /\ remote.mergeable = "false"
  /\ args.pr_number = 12 /\ calls = <<"get_repo", "get_pull">>
  /\ result.error = <<"Pull request #", "1", "2", " is not mergeable.">>

FileOps == {"update_file", "create_file"}

\* C6 (as stated): in create_or_update_file, once the repository resolves,
\* exactly one of update_file and create_file is invoked, and it is
\* update_file iff a sha argument was supplied (the empty string included).
C6_UpdateIffShaSupplied ==
  (Ended /\ tool = "create_or_update_file" /\ RepoResolved) =>
    /\ Cardinality(Positions(FileOps)) = 1
    /\ (Positions({"update_file"}) # {}) <=> (args.sha # NoneVal)

\* C6 (amended): ... and it is update_file iff a non-empty sha was supplied;
\* an omitted sha and the empty string both select create_file.
C6_UpdateIffShaNonEmpty ==
  (Ended /\ tool = "create_or_update_file" /\ RepoResolved) =>
    /\ Cardinality(Positions(FileOps)) = 1
    /\ (Positions({"update_file"}) # {}) <=> (args.sha \notin {NoneVal, ""})

\* C6 witness: a real sha was supplied and the update was applied.
C6_Witness ==
  /\ Ended /\ tool = "create_or_update_file" /\ args.sha = "3f2a"
  /\ calls = <<"get_repo", "update_file">> /\ result.kind = "ok"

\* C7: list_repository_contents always returns a list on success: one record
\* per entry, in platform order, when the path is a directory, and a list of
\* exactly one record for the file when the path is a single file.
C7_ContentsAlwaysAList ==
  (ListOk /\ tool = "list_repository_contents") =>
    IF remote.is_dir
    THEN /\ Len(result.value) = Len(remote.listing)
         /\ \A k \in 1..Len(result.value) : result.value[k].name = k
    ELSE /\ Len(result.value) = 1
         /\ result.value[1].type = "file"

\* C7 witness: the path named a single file and a one-element list came back.
C7_Witness ==
  /\ ListOk /\ tool = "list_repository_contents" /\ ~remote.is_dir
  /\ result.value = <<[name |-> 0, type |-> "file"]>>

\* C8: a read-only tool (list_*, get_*) invokes no mutation operation and
\* leaves the remote state as it was, and the same call issued a second time
\* against that unchanged state and credential yields the identical result.
C8_ReadOnlyAndRepeatable ==
  [][(tool' \in ReadTools /\ pc' # pc) =>
       /\ remote' = remote
       /\ \A i \in 1..Len(calls') : calls'[i] \notin MutationOps
       /\ (pc' = "repeated" => again' = result')]_vars

\* C8 witness: a listing was read twice and both reads returned two records.
C8_Witness ==
  /\ pc = "repeated" /\ tool = "list_branches" /\ result.kind = "ok"
  /\ Len(result.value) = 2 /\ again = result

\* C9: no tool retries.  Within one invocation every remote operation is
\* attempted at most once, at most one mutation operation is invoked, and
\* the first remote failure is the last remote call of the invocation, which
\* ends with an error payload.
C9_NoRetry ==
  Ended =>
    /\ \A i, j \in 1..Len(calls) : calls[i] = calls[j] => i = j
    /\ Cardinality(Positions(MutationOps)) <= 1
    /\ \A i \in 1..Len(calls) :
         Raises(calls[i]) => (i = Len(calls) /\ result.kind = "error")

\* C9 witness: the commit lookup of add_pull_request_review_comment failed
\* and the comment was never created.
C9_Witness ==
  /\ Ended /\ tool = "add_pull_request_review_comment"
  /\ remote.unavailable = "commit"
  /\ calls = <<"get_repo", "get_pull", "get_commit">>
  /\ result.kind = "error"

\* C10: with g None, _get_repo_safe fails with the credential error before
\* any remote call, so a tool taking repo_full_name makes no remote call at
\* all; a repository lookup that raises the platform's exception fails with
\* the could-not-find-repository error carrying the exception's data, and
\* that lookup is the invocation's only remote call.
C10_RepoResolverErrors ==
  (Ended /\ tool \notin NoRepoTools) =>
    /\ g = NoneVal =>
         /\ calls = <<>>
         /\ result.kind = "error"
         /\ Contains(result.error, TokenMessage)
    /\ (g # NoneVal /\ Raises("get_repo")) =>
         /\ calls = <<"get_repo">>
         /\ result.kind = "error"
         /\ Contains(result.error,
                     <<"Could not find repository '", args.repo_full_name,
                       "'. Error: ", "data of ", "get_repo">>)

\* C10 witness: list_issues with an assignee and no client handle ends with
\* the credential error and not even the user lookup was attempted.
C10_Witness ==
  /\ Ended /\ tool = "list_issues" /\ g = NoneVal
  /\ args.assignee_username = "alice"
  /\ calls = <<>> /\ result.error = TokenMessage

StateFilter == <<"state", "str", args.state>>
AssigneeFilter == <<"assignee", "NamedUser", args.assignee_username>>
\* list_issues once the repository has resolved, `supplied` telling whether
\* an assignee counts as given: the user is resolved before the issues are
\* fetched and the fetch carries the state and that user; a failed user
\* lookup ends the call with an error payload and no enumeration; without
\* an assignee no user is looked up and only the state is passed.
ListIssuesPolicy(supplied) ==
  (Ended /\ tool = "list_issues" /\ RepoResolved) =>
    IF supplied
    THEN IF Raises("get_user")
         THEN /\ calls = <<"get_repo", "get_user">>
              /\ filters = <<>>
              /\ result.kind = "error"
         ELSE /\ calls = <<"get_repo", "get_user", "get_issues">>
              /\ filters = <<StateFilter, AssigneeFilter>>
    ELSE /\ calls = <<"get_repo", "get_issues">>
         /\ filters = <<StateFilter>>

\* C11 (as stated): in list_issues, when assignee_username is supplied the
\* user is resolved before the issues are fetched and the fetch is filtered
\* by the given state and by that user; a failed user lookup returns an
\* error payload with no issue enumeration; when it is not supplied no user
\* lookup is made and only the state filter is applied.
C11_AssigneeSuppliedIsResolved == ListIssuesPolicy(args.assignee_username # NoneVal)

\* C11 (amended): the same with "supplied" meaning supplied and non-empty:
\* an omitted assignee_username and the empty string both make no user
\* lookup and pass only the state filter.
C11_AssigneeNonEmptyIsResolved ==
  ListIssuesPolicy(args.assignee_username \notin {NoneVal, ""})

\* C11 witness: closed issues of alice were fetched after alice was resolved.
C11_Witness ==
  /\ Ended /\ tool = "list_issues" /\ args.state = "closed"
  /\ args.assignee_username = "alice"
  /\ calls = <<"get_repo", "get_user", "get_issues">>
  /\ filters = <<<<"state", "str", "closed">>, <<"assignee", "NamedUser", "alice">>>>
  /\ result.kind = "ok"

RepoMutatingTools == MutatingTools \ NoRepoTools
\* the lookups a mutating tool makes before its mutation, in order
LookupsBeforeMutation ==
  CASE tool = "create_github_issue" ->
         IF args.assignee_username \in {NoneVal, ""} THEN <<"get_repo">>
         ELSE <<"get_repo", "get_user">>
    [] tool \in {"merge_pull_request", "request_pull_request_review"} ->
         <<"get_repo", "get_pull">>
    [] tool = "add_pull_request_review_comment" ->
         <<"get_repo", "get_pull", "get_commit">>
    [] tool = "trigger_workflow" -> <<"get_repo", "get_workflow">>
    [] OTHER -> <<"get_repo">>

\* C12: a mutating tool that takes repo_full_name invokes its mutation only
\* after the repository and every target resource it looks up (pull request,
\* commit, workflow, assignee user) has resolved in that invocation; if one
\* of those lookups fails, or the client is absent, the invocation returns
\* an error payload and makes no mutation call.
C12_MutationAfterLookups ==
  (Ended /\ tool \in RepoMutatingTools) =>
    /\ \A i \in Positions(MutationOps) :
         /\ g # NoneVal
         /\ SubSeq(calls, 1, i - 1) = LookupsBeforeMutation
         /\ \A j \in 1..(i - 1) : ~Raises(calls[j])
    /\ (g = NoneVal \/ \E k \in 1..Len(LookupsBeforeMutation) :
                         Raises(LookupsBeforeMutation[k])) =>
         /\ result.kind = "error"
         /\ Positions(MutationOps) = {}

\* C12 witness: the review comment was created after the repository, the
\* pull request and the commit had all resolved.
C12_Witness ==
  /\ Ended /\ tool = "add_pull_request_review_comment"
  /\ calls = <<"get_repo", "get_pull", "get_commit", "create_review_comment">>
  /\ result.kind = "ok"

PullResolved == RepoResolved /\ ~Raises("get_pull")

\* C14: merge_pull_request invokes the merge mutation if and only if the
\* repository and the pull request resolved and the platform reports
\* mergeable as true; a flag that is false or not yet computed (null) yields
\* the error "Pull request #<n> is not mergeable." and no merge call.
C14_MergeIffMergeableTrue ==
  (Ended /\ tool = "merge_pull_request") =>
    /\ (Positions({"merge"}) # {}) <=> (PullResolved /\ remote.mergeable = "true")
    /\ (PullResolved /\ remote.mergeable \in {"false", "null"}) =>
         /\ result.kind = "error"
         /\ result.error = <<"Pull request #">> \o IntStr(args.pr_number)
                             \o <<" is not mergeable.">>

\* C14 witness: the flag was null and pull request 7 was refused unmerged.
C14_Witness ==
  /\ Ended /\ tool = "merge_pull_request" /\ remote.mergeable = "null"
  /\ args.pr_number = 7 /\ calls = <<"get_repo", "get_pull">>
  /\ result.error = <<"Pull request #", "7", " is not mergeable.">>

\* C15: get_file_content_from_repo never returns a success record for a
\* directory: a path that resolves to a directory listing yields the error
\* "Path '<path>' is a directory, not a file.", and the success record
\* {content, encoding, sha} is returned only for a path that resolves to a
\* single file.
C15_DirectoryIsNotAFile ==
  (Ended /\ tool = "get_file_content_from_repo") =>
    /\ (RepoResolved /\ ~Raises("get_contents") /\ remote.is_dir) =>
         /\ result.kind = "error"
         /\ result.error = <<"Path '", args.path, "' is a directory, not a file.">>
    /\ result.kind = "ok" =>
         /\ ~remote.is_dir
         /\ calls = <<"get_repo", "get_contents">>
         /\ DOMAIN result.value = {"content", "encoding", "sha"}

\* C15 witness: README.md resolved to a directory and the fixed error came back.
C15_Witness ==
  /\ Ended /\ tool = "get_file_content_from_repo" /\ remote.is_dir
  /\ calls = <<"get_repo", "get_contents">>
  /\ result.error = <<"Path '", "README.md", "' is a directory, not a file.">>

====
